---- MODULE Spec2Model ----
(***************************************************************************)
(* A model of sparsity's SparseFrame (sparse_frame.py): a CSR matrix with  *)
(* one spare all-zero row, a row label index and a column label index,     *)
(* with join, add, groupby, sort_index, row slicing and column assignment, *)
(* and of the one-hot encoder csr_one_hot_series.                          *)
(*                                                                         *)
(* A matrix is a record [nc |-> number of columns, v |-> sequence of rows],*)
(* a row being a sequence of nc integers.  Positions handed to numpy are   *)
(* 0-based and may be negative, exactly as in the source.                  *)
(***************************************************************************)
EXTENDS Integers, Sequences, FiniteSets, TLC

VARIABLES frames, op, oh, ddfs, dcalls

vars == <<frames, op, oh, ddfs, dcalls>>

-----------------------------------------------------------------------------
(* Bounds of the model.                                                    *)

MaxCalls == 3        \* calls a run makes
MaxChain == 4        \* calls of a slice / concat / groupby pipeline
MaxErrCalls == 3     \* calls of a run on two frames with column labels
MaxErrRows == 1      \* rows of a frame built with column labels
MaxErrCols == 2      \* columns of a frame built with column labels
MaxDaskCalls == 3    \* calls of a run on partitioned frames
MaxSources == 1      \* sources partitioned frames are loaded from
MaxBaseParts == 2    \* partitions of a loaded frame
MaxParts == 3        \* partitions asked of a repartition
MaxDiv == 2          \* largest division value
MaxFuncs == 2        \* functions mapped over partitions
MaxShrinkParts == 15 \* partitions of a frame that is shrunk
MaxShrinkCalls == 3  \* calls of a run that shrinks a frame
MaxSplitParts == 4   \* partitions of a loaded frame of unknown divisions
MaxSplitTarget == 7  \* partitions asked of a growing repartition
MaxSplitCalls == 3   \* calls of a run that grows a frame by splitting
MaxTripParts == 6    \* partitions of a frame that is shrunk and grown again
MaxTripStep == 3     \* distance of two evenly spaced divisions
MaxTripCalls == 3    \* calls of a run that shrinks a frame and grows it
MaxRows == 3         \* logical rows of a frame
MaxCols == 2         \* stored columns of a frame
MaxVal == 2          \* largest stored value
MaxLabel == 2        \* row labels given to the constructor are 1..MaxLabel
MaxConsRows == 2     \* rows of a matrix given to the constructor
MaxConsCols == 1     \* columns of a matrix given to the constructor
MaxKey == 2          \* groupby keys of an explicit `by` are 1..MaxKey
MaxSlice == 1        \* slice bounds are None, -1 and MaxSlice
MaxSeries == 3       \* length of a series given to the one-hot encoder
MaxCat == 3          \* category values are 1..MaxCat

-----------------------------------------------------------------------------
(* Sequences and numpy / Python indexing.                                  *)

Range(s) == {s[i] : i \in 1..Len(s)}

RECURSIVE SeqsUpTo(_, _)
SeqsUpTo(S, n) ==
    IF n = 0 THEN {<<>>}
    ELSE LET P == SeqsUpTo(S, n - 1)
         IN  P \cup {Append(p, x) : p \in {q \in P : Len(q) = n - 1}, x \in S}

SeqsOfLen(S, n) == {s \in SeqsUpTo(S, n) : Len(s) = n}

IsUnique(s) == \A i, j \in 1..Len(s) : s[i] = s[j] => i = j

\* pandas Index.is_monotonic: non-decreasing
IsMonotonic(s) == \A i \in 1..Len(s) - 1 : s[i] <= s[i + 1]

\* a[p] for a 0-based, possibly negative, position p on a sequence of length n
PyPos(n, p) == IF p < 0 THEN n + p + 1 ELSE p + 1

PyValid(n, p) == -n <= p /\ p < n

\* the bounds Python's slice.indices(n) computes for step 1
PyBound(n, b, dflt) ==
    IF b.none THEN dflt
    ELSE IF b.v < 0 THEN (IF n + b.v < 0 THEN 0 ELSE n + b.v)
    ELSE IF b.v > n THEN n ELSE b.v

\* s[start:stop]
PySlice(s, start, stop) ==
    LET lo == PyBound(Len(s), start, 0)
        hi == PyBound(Len(s), stop, Len(s))
    IN  IF hi <= lo THEN <<>> ELSE SubSeq(s, lo + 1, hi)

\* s[keys] for a list of positions (numpy fancy indexing)
Take(s, keys) == [i \in 1..Len(keys) |-> s[PyPos(Len(s), keys[i])]]

\* stable ascending argsort, 0-based positions
RECURSIVE InsertPos(_, _, _)
InsertPos(s, sorted, p) ==
    IF sorted = <<>> THEN <<p>>
    ELSE IF s[p + 1] < s[Head(sorted) + 1] THEN <<p>> \o sorted
    ELSE <<Head(sorted)>> \o InsertPos(s, Tail(sorted), p)

RECURSIVE ArgsortFrom(_, _, _)
ArgsortFrom(s, i, acc) ==
    IF i > Len(s) THEN acc
    ELSE ArgsortFrom(s, i + 1, InsertPos(s, acc, i - 1))

argsort(s) == ArgsortFrom(s, 1, <<>>)

RECURSIVE SortSet(_)
SortSet(S) ==
    IF S = {} THEN <<>>
    ELSE LET m == CHOOSE x \in S : \A y \in S : x <= y
         IN  <<m>> \o SortSet(S \ {m})

\* np.unique: the sorted distinct values
unique(s) == SortSet(Range(s))

\* np.all(a == b) on two 1-d arrays: elementwise when the lengths agree,
\* broadcast when one of them has length 1, False when the shapes do not match
all_equal(a, b) ==
    IF Len(a) = Len(b) THEN \A i \in 1..Len(a) : a[i] = b[i]
    ELSE IF Len(a) = 1 THEN \A i \in 1..Len(b) : b[i] = a[1]
    ELSE IF Len(b) = 1 THEN \A i \in 1..Len(a) : a[i] = b[1]
    ELSE FALSE

\* pandas _default_index(n): 0, 1, ..., n-1
_default_index(n) == [i \in 1..n |-> i - 1]

-----------------------------------------------------------------------------
(* Sparse matrices (scipy.sparse), by value.                               *)

Mat(k, rows) == [nc |-> k, v |-> rows]

NoMat == Mat(0, <<>>)

ZeroRow(k) == [j \in 1..k |-> 0]

IsZeroRow(r) == \A j \in 1..Len(r) : r[j] = 0

\* m[keys, :]
TakeRows(m, keys) == Mat(m.nc, Take(m.v, keys))

\* whether m[keys, :] finds every position; scipy raises IndexError otherwise
RowsValid(m, keys) == \A i \in 1..Len(keys) : PyValid(Len(m.v), keys[i])

\* m[:-1, :]
DropLast(m) == Mat(m.nc, SubSeq(m.v, 1, Len(m.v) - 1))

\* m[start:stop, :]
SliceRows(m, start, stop) == Mat(m.nc, PySlice(m.v, start, stop))

\* sparse.vstack([a, b]) accepts blocks of one column count
CanVStack(a, b) == a.nc = b.nc

vstack(a, b) == Mat(a.nc, a.v \o b.v)

\* sparse.hstack([a, b]): bmat takes the row count of the first block that has
\* rows, and rejects a later block of another row count
CanHStack(a, b) == Len(a.v) = 0 \/ Len(a.v) = Len(b.v)

hstack(a, b) ==
    Mat(a.nc + b.nc,
        [i \in 1..Len(b.v) |->
            (IF Len(a.v) = 0 THEN ZeroRow(a.nc) ELSE a.v[i]) \o b.v[i]])

AddRow(r, s) == [j \in 1..Len(r) |-> r[j] + s[j]]

\* a._binopt(b, '_plus_')
binopt_plus(a, b) == Mat(a.nc, [i \in 1..Len(a.v) |-> AddRow(a.v[i], b.v[i])])

MatShape(m) == <<Len(m.v), m.nc>>

MaxOfMat(m) ==
    LET S == {m.v[i][j] : i \in 1..Len(m.v), j \in 1..m.nc}
    IN  IF S = {} THEN 0 ELSE CHOOSE x \in S : \A y \in S : y <= x

\* m.T
transpose(m) ==
    Mat(Len(m.v), [j \in 1..m.nc |-> [i \in 1..Len(m.v) |-> m.v[i][j]]])

RECURSIVE SumTo(_, _)
SumTo(f, n) == IF n = 0 THEN 0 ELSE f[n] + SumTo(f, n - 1)

\* a.dot(b), for a of shape (p, q) and b of shape (q, r)
dot(a, b) ==
    Mat(b.nc,
        [i \in 1..Len(a.v) |->
            [j \in 1..b.nc |->
                SumTo([k \in 1..a.nc |-> a.v[i][k] * b.v[k][j]], a.nc)]])

-----------------------------------------------------------------------------
(* Optional arguments and results.                                         *)

NoneSeq == [none |-> TRUE, v |-> <<>>]
SomeSeq(s) == [none |-> FALSE, v |-> s]
NoneInt == [none |-> TRUE, v |-> 0]
SomeInt(i) == [none |-> FALSE, v |-> i]

\* the absence of a frame (a free slot, or the result of a call that raised)
NoFrame == [_data |-> NoMat, _index |-> <<>>, _columns |-> <<>>, shape |-> <<0, 0>>]

Ok(f) == [ok |-> TRUE, f |-> f, err |-> ""]
Raise(e) == [ok |-> FALSE, f |-> NoFrame, err |-> e]

-----------------------------------------------------------------------------
(* pandas Index.join(other, how, return_indexers=True) on two single-level *)
(* indexes of unique labels of one dtype.  An indexer is None (the side is *)
(* already aligned) or a position per joined label, -1 where the side has  *)
(* no such label.                                                          *)

PosIn(idx, x) ==
    IF x \in Range(idx) THEN (CHOOSE i \in 1..Len(idx) : idx[i] = x) - 1 ELSE -1

get_indexer(idx, target) == [i \in 1..Len(target) |-> PosIn(idx, target[i])]

union(a, b) == SortSet(Range(a) \cup Range(b))

JoinRes(idx, l, r) == [idx |-> idx, lidx |-> l, ridx |-> r]

_join_monotonic(a, b, how) ==
    IF a = b THEN JoinRes(a, NoneSeq, NoneSeq)
    ELSE IF how = "left" THEN JoinRes(a, NoneSeq, SomeSeq(get_indexer(b, a)))
    ELSE LET u == union(a, b)
         IN  JoinRes(u, SomeSeq(get_indexer(a, u)), SomeSeq(get_indexer(b, u)))

index_join(a, b, how) ==
    IF Len(b) = 0
    THEN JoinRes(a, NoneSeq, SomeSeq([i \in 1..Len(a) |-> -1]))
    ELSE IF Len(a) = 0 /\ how = "outer"
    THEN JoinRes(b, SomeSeq([i \in 1..Len(b) |-> -1]), NoneSeq)
    ELSE IF IsMonotonic(a) /\ IsMonotonic(b) THEN _join_monotonic(a, b, how)
    ELSE IF how = "left" \/ a = b
    THEN JoinRes(a, NoneSeq, SomeSeq(get_indexer(b, a)))
    ELSE LET u == union(a, b)
         IN  JoinRes(u, SomeSeq(get_indexer(a, u)), SomeSeq(get_indexer(b, u)))

-----------------------------------------------------------------------------
(* SparseFrame.                                                            *)

_init_csr(csr) == vstack(csr, Mat(csr.nc, <<ZeroRow(csr.nc)>>))

\* SparseFrame(data, index, columns)
SparseFrame(mat, index, columns) ==
    [_data    |-> _init_csr(mat),
     _index   |-> IF index.none THEN _default_index(Len(mat.v)) ELSE index.v,
     _columns |-> IF columns.none THEN _default_index(mat.nc) ELSE columns.v,
     shape    |-> MatShape(mat)]

\* the property SparseFrame.data
data(self) == DropLast(self._data)

AlignedSide(m, indexer) ==
    IF indexer.none THEN DropLast(m) ELSE TakeRows(m, indexer.v)

AlignedValid(m, indexer) == indexer.none \/ RowsValid(m, indexer.v)

\* [ok, data, idx]: the combined matrix and the joined labels
_aligned_csr_elop(a, b, a_idx, b_idx) ==
    LET j == index_join(a_idx, b_idx, "left")
        a_new == AlignedSide(a, j.lidx)
        b_new == AlignedSide(b, j.ridx)
    IN  IF ~AlignedValid(a, j.lidx) \/ ~AlignedValid(b, j.ridx)
        THEN [ok |-> FALSE, err |-> "IndexError", data |-> NoMat, idx |-> <<>>]
        ELSE IF MatShape(b_new) # MatShape(a_new)
        THEN [ok |-> FALSE, err |-> "AssertionError", data |-> NoMat, idx |-> <<>>]
        ELSE [ok |-> TRUE, err |-> "", data |-> binopt_plus(a_new, b_new),
              idx |-> j.idx]

_matrix_join(a, b, a_idx, b_idx) ==
    LET j == index_join(a_idx, b_idx, "outer")
        a_new == AlignedSide(a, j.lidx)
        b_new == AlignedSide(b, j.ridx)
    IN  IF ~AlignedValid(a, j.lidx) \/ ~AlignedValid(b, j.ridx)
        THEN [ok |-> FALSE, err |-> "IndexError", data |-> NoMat, idx |-> <<>>]
        ELSE IF ~CanHStack(a_new, b_new)
        THEN [ok |-> FALSE, err |-> "ValueError", data |-> NoMat, idx |-> <<>>]
        ELSE [ok |-> TRUE, err |-> "", data |-> hstack(a_new, b_new), idx |-> j.idx]

\* the row-membership matrix of sorted keys: a 1 at (i, code of key i)
_create_group_matrix(group_idx) ==
    LET cats == unique(group_idx)
    IN  Mat(Len(cats),
            [i \in 1..Len(group_idx) |->
                [c \in 1..Len(cats) |-> IF cats[c] = group_idx[i] THEN 1 ELSE 0]])

groupby(self, by) ==
    IF ~by.none /\ Len(by.v) # Len(data(self).v) THEN Raise("AssertionError")
    ELSE IF by.none /\ Len(self._index) > Len(self._data.v) THEN Raise("IndexError")
    ELSE LET keys == IF by.none THEN self._index ELSE by.v
             group_idx == argsort(keys)
             gm == _create_group_matrix(Take(keys, group_idx))
             grouped_data ==
                 transpose(dot(transpose(TakeRows(self._data, group_idx)), gm))
         IN  Ok(SparseFrame(grouped_data, SomeSeq(unique(keys)),
                            SomeSeq(self._columns)))

\* which branch of join is taken
join_path(self, other, axis) ==
    IF axis = 0
    THEN (IF all_equal(other._columns, self._columns) THEN "fast" ELSE "general")
    ELSE (IF all_equal(self._index, other._index) THEN "fast" ELSE "general")

\* The general path of axis 0 ends in an exception for every input: at the
\* latest the call data.T.to_csr(), a method scipy matrices do not have.
join(self, other, axis) ==
    IF axis = 0
    THEN IF join_path(self, other, 0) = "fast"
         THEN IF ~CanVStack(data(self), data(other)) THEN Raise("ValueError")
              ELSE Ok(SparseFrame(vstack(data(self), data(other)),
                                  SomeSeq(self._index \o other._index),
                                  SomeSeq(self._columns)))
         ELSE Raise("AttributeError")
    ELSE IF join_path(self, other, 1) = "fast"
         THEN IF ~CanHStack(data(self), data(other)) THEN Raise("ValueError")
              ELSE Ok(SparseFrame(hstack(data(self), data(other)),
                                  SomeSeq(self._index),
                                  SomeSeq(self._columns \o other._columns)))
         ELSE LET j == _matrix_join(self._data, other._data,
                                    self._index, other._index)
              IN  IF ~j.ok THEN Raise(j.err)
                  ELSE Ok(SparseFrame(j.data, SomeSeq(j.idx),
                                      SomeSeq(self._columns \o other._columns)))

sort_index(self) ==
    LET passive_sort_idx == argsort(self._index)
    IN  IF ~RowsValid(self._data, passive_sort_idx) THEN Raise("IndexError")
        ELSE
        Ok(SparseFrame(TakeRows(self._data, passive_sort_idx),
                       SomeSeq(Take(self._index, passive_sort_idx)), NoneSeq))

\* add without its assert on the column labels
add_unasserted(self, other) ==
    LET e == _aligned_csr_elop(self._data, other._data,
                               self._index, other._index)
    IN  IF ~e.ok THEN Raise(e.err)
        ELSE Ok(SparseFrame(e.data, SomeSeq(e.idx), SomeSeq(self._columns)))

\* self._columns == other.columns compares two pandas indexes, which raises
\* ValueError ("Lengths must match to compare") before the assert sees a value
add(self, other) ==
    IF Len(self._columns) # Len(other._columns) THEN Raise("ValueError")
    ELSE IF ~all_equal(self._columns, other._columns) THEN Raise("AssertionError")
    ELSE LET e == _aligned_csr_elop(self._data, other._data,
                                    self._index, other._index)
         IN  IF ~e.ok THEN Raise(e.err)
             ELSE Ok(SparseFrame(e.data, SomeSeq(e.idx), SomeSeq(self._columns)))

\* self._slice(slice(start, stop))
_slice(self, start, stop) ==
    Ok(SparseFrame(SliceRows(self._data, start, stop),
                   SomeSeq(PySlice(self._index, start, stop)), NoneSeq))

\* self._ixs(key) for a list of positions; an integer key k gives what [k] gives
_ixs(self, key) ==
    IF \E i \in 1..Len(key) : ~PyValid(Len(self._index), key[i])
    THEN Raise("IndexError")
    ELSE IF ~RowsValid(self._data, key) THEN Raise("IndexError")
    ELSE Ok(SparseFrame(TakeRows(self._data, key),
                        SomeSeq(Take(self._index, key)), NoneSeq))

\* a column assignment that pads the new column at its top
__setitem__padded_first(self, key, value) ==
    LET val == Mat(1, [i \in 1..Len(value) + 1 |->
                          <<IF i > 1 THEN value[i - 1] ELSE 0>>])
    IN  IF ~CanHStack(self._data, val) THEN Raise("ValueError")
        ELSE Ok([self EXCEPT !._data = hstack(self._data, val)])

\* self[key] = value: the frame after the statement (self, unchanged, when it
\* raised).  Index.append returns a new index, which the source drops.
__setitem__(self, key, value) ==
    LET val == Mat(1, [i \in 1..Len(value) + 1 |->
                          <<IF i <= Len(value) THEN value[i] ELSE 0>>])
    IN  IF ~CanHStack(self._data, val) THEN Raise("ValueError")
        ELSE Ok([self EXCEPT !._data = hstack(self._data, val)])

-----------------------------------------------------------------------------
(* csr_one_hot_series(s, categories): the codes of pd.Categorical are the  *)
(* 0-based positions of the values in the categories, -1 for a value that  *)
(* is no category.                                                         *)

Encoded(ok, err, named, m) == [ok |-> ok, err |-> err, named |-> named, m |-> m]

Unknown(s, codes) ==
    unique(Take(s, SortSet({i - 1 : i \in {k \in 1..Len(s) : codes[k] = -1}})))

\* an encoder that leaves the row of an unknown value empty
csr_one_hot_series_dropping(s, categories) ==
    LET codes == get_indexer(categories, s)
    IN  Encoded(TRUE, "", <<>>,
                Mat(Len(categories),
                    [i \in 1..Len(s) |->
                        [j \in 1..Len(categories) |->
                            IF j = codes[i] + 1 THEN 1 ELSE 0]]))

csr_one_hot_series(s, categories) ==
    LET codes == get_indexer(categories, s)
        n_features == Len(categories)
        n_samples == Len(s)
    IN  IF \E i \in 1..n_samples : codes[i] = -1
        THEN Encoded(FALSE, "ValueError", Unknown(s, codes), NoMat)
        ELSE Encoded(TRUE, "", <<>>,
                     Mat(n_features,
                         [i \in 1..n_samples |->
                             [j \in 1..n_features |->
                                 IF j = codes[i] + 1 THEN 1 ELSE 0]]))

-----------------------------------------------------------------------------
(* The program state: frames[i] is the object the i-th call of the run     *)
(* returned (NoFrame when it raised, returned nothing, or was not made      *)
(* yet), and op records the last call.  oh is a run of the one-hot         *)
(* encoder: its inputs and, once it ran, its outcome.                      *)

Slots == DOMAIN frames

Live == {i \in Slots : frames[i] # NoFrame}

CanCall == op.n < Len(frames)

Call(name, a, b, res) ==
    [n |-> op.n + 1, name |-> name, a |-> a, b |-> b,
     r |-> IF res.ok THEN op.n + 1 ELSE 0,
     ok |-> res.ok, err |-> res.err,
     axis |-> 0, given |-> FALSE, seq |-> <<>>, key |-> 0,
     start |-> NoneInt, stop |-> NoneInt, path |-> "", pre |-> NoFrame]

\* a frame the bounds of the model admit
InBounds(f) ==
    /\ Len(f._data.v) <= MaxRows + 1
    /\ f._data.nc <= MaxCols
    /\ MaxOfMat(f._data) <= MaxVal

Admit(res) == res.ok => InBounds(res.f)

\* the label alignment of index_join covers indexes of unique labels
Alignable(self, other) == IsUnique(self._index) /\ IsUnique(other._index)

\* a method that writes its result into self and returns it as well
ReturnSelf(fs, self, r, res) ==
    IF ~res.ok THEN fs
    ELSE IF self = 0 THEN [fs EXCEPT ![r] = res.f]
    ELSE [fs EXCEPT ![r] = res.f, ![self] = res.f]

\* A method called on object self that returns a frame returns a new object,
\* r, and leaves self as it was; a call that raises changes nothing.
Return(fs, self, r, res) == IF res.ok THEN [fs EXCEPT ![r] = res.f] ELSE fs

\* the inputs of the constructor
ConsMats ==
    {Mat(k, rows) : k \in 1..MaxConsCols, rows \in {<<>>}} \cup
    UNION {{Mat(k, rows) : rows \in SeqsOfLen(SeqsOfLen({0, 1}, k), n)} :
              n \in 1..MaxConsRows, k \in 1..MaxConsCols}

ConsIndexes(n) == {NoneSeq} \cup {SomeSeq(s) : s \in SeqsOfLen(1..MaxLabel, n)}

SliceArgs == {NoneInt, SomeInt(-1), SomeInt(MaxSlice)}

IxsKeys == SeqsUpTo({-1, 0}, 2) \ {<<>>}

ByArgs == {NoneSeq} \cup {SomeSeq(s) : s \in SeqsUpTo(1..MaxKey, MaxRows)}

SetKey == 6

SetValues == SeqsUpTo({0, 1}, MaxRows)

NoCall ==
    [n |-> 0, name |-> "", a |-> 0, b |-> 0, r |-> 0, ok |-> FALSE, err |-> "",
     axis |-> 0, given |-> FALSE, seq |-> <<>>, key |-> 0,
     start |-> NoneInt, stop |-> NoneInt, path |-> "", pre |-> NoFrame]

\* no partitioned frame has been built
NoDask == ddfs = <<>> /\ dcalls = <<>>

Encoding(s, categories) ==
    [s |-> s, categories |-> categories, done |-> FALSE,
     res |-> Encoded(FALSE, "", <<>>, NoMat)]

Init ==
    /\ frames = [i \in 1..MaxCalls |-> NoFrame]
    /\ op = NoCall
    /\ oh = Encoding(<<>>, <<>>)
    /\ NoDask

Construct ==
    /\ CanCall
    /\ \E mat \in ConsMats : \E index \in ConsIndexes(Len(mat.v)) :
          LET res == Ok(SparseFrame(mat, index, NoneSeq))
          IN  /\ frames' = Return(frames, 0, op.n + 1, res)
              /\ op' = [Call("SparseFrame", 0, 0, res) EXCEPT !.given = ~index.none]
    /\ UNCHANGED <<oh, ddfs, dcalls>>

GroupBy ==
    /\ CanCall
    /\ \E a \in Live : \E by \in ByArgs :
          LET res == groupby(frames[a], by)
          IN  /\ Admit(res)
              /\ frames' = Return(frames, a, op.n + 1, res)
              /\ op' = [Call("groupby", a, 0, res)
                            EXCEPT !.given = ~by.none, !.seq = by.v]
    /\ UNCHANGED <<oh, ddfs, dcalls>>

Join ==
    /\ CanCall
    /\ \E a \in Live, b \in Live : \E axis \in {0, 1} :
          LET res == join(frames[a], frames[b], axis)
              path == join_path(frames[a], frames[b], axis)
          IN  /\ (axis = 1 /\ path = "general") => Alignable(frames[a], frames[b])
              /\ Admit(res)
              /\ frames' = Return(frames, a, op.n + 1, res)
              /\ op' = [Call("join", a, b, res) EXCEPT !.axis = axis, !.path = path]
    /\ UNCHANGED <<oh, ddfs, dcalls>>

SortIndex ==
    /\ CanCall
    /\ \E a \in Live :
          LET res == sort_index(frames[a])
          IN  /\ frames' = Return(frames, a, op.n + 1, res)
              /\ op' = Call("sort_index", a, 0, res)
    /\ UNCHANGED <<oh, ddfs, dcalls>>

Add ==
    /\ CanCall
    /\ \E a \in Live, b \in Live :
          LET res == add(frames[a], frames[b])
          IN  /\ frames[a]._columns = frames[b]._columns
                    => Alignable(frames[a], frames[b])
              /\ Admit(res)
              /\ frames' = Return(frames, a, op.n + 1, res)
              /\ op' = Call("add", a, b, res)
    /\ UNCHANGED <<oh, ddfs, dcalls>>

Slice ==
    /\ CanCall
    /\ \E a \in Live : \E start \in SliceArgs, stop \in SliceArgs :
          LET res == _slice(frames[a], start, stop)
          IN  /\ Admit(res)
              /\ frames' = Return(frames, a, op.n + 1, res)
              /\ op' = [Call("_slice", a, 0, res)
                            EXCEPT !.start = start, !.stop = stop]
    /\ UNCHANGED <<oh, ddfs, dcalls>>

Ixs ==
    /\ CanCall
    /\ \E a \in Live : \E key \in IxsKeys :
          LET res == _ixs(frames[a], key)
          IN  /\ frames' = Return(frames, a, op.n + 1, res)
              /\ op' = [Call("_ixs", a, 0, res) EXCEPT !.seq = key]
    /\ UNCHANGED <<oh, ddfs, dcalls>>

\* self[key] = value changes the object itself and returns nothing
Assign(fs, a, res) == IF res.ok THEN [fs EXCEPT ![a] = res.f] ELSE fs

SetItem ==
    /\ CanCall
    /\ \E a \in Live : \E value \in SetValues :
          LET res == __setitem__(frames[a], SetKey, value)
          IN  /\ Admit(res)
              /\ frames' = Assign(frames, a, res)
              /\ op' = [Call("__setitem__", a, 0, res)
                            EXCEPT !.r = 0, !.seq = value, !.key = SetKey,
                                   !.pre = frames[a]]
    /\ UNCHANGED <<oh, ddfs, dcalls>>

Next ==
    \/ Construct
    \/ GroupBy
    \/ Join
    \/ SortIndex
    \/ Add
    \/ Slice
    \/ Ixs
    \/ SetItem

Spec == Init /\ [][Next]_vars

-----------------------------------------------------------------------------
(* The pipeline of sparse_aggregate_cs on frames that were sliced before:  *)
(* a frame is constructed, then sliced, stacked with SparseFrame.concat    *)
(* and grouped by its own row labels with groupby().                       *)

InitChain ==
    /\ \E mat \in ConsMats : \E index \in ConsIndexes(Len(mat.v)) :
          LET res == Ok(SparseFrame(mat, index, NoneSeq))
          IN  /\ frames = [i \in 1..MaxChain |-> IF i = 1 THEN res.f ELSE NoFrame]
              /\ op = [NoCall EXCEPT !.n = 1, !.name = "SparseFrame", !.r = 1,
                                     !.ok = TRUE, !.given = ~index.none]
    /\ oh = Encoding(<<>>, <<>>)
    /\ NoDask

\* SparseFrame.concat([a, b], axis=0): reduce(join) over two tables
Concat ==
    /\ CanCall
    /\ \E a \in Live, b \in Live :
          LET res == join(frames[a], frames[b], 0)
              path == join_path(frames[a], frames[b], 0)
          IN  /\ Admit(res)
              /\ frames' = Return(frames, a, op.n + 1, res)
              /\ op' = [Call("join", a, b, res) EXCEPT !.axis = 0, !.path = path]
    /\ UNCHANGED <<oh, ddfs, dcalls>>

\* data.groupby(): the keys are the frame's own row labels
GroupByIndex ==
    /\ CanCall
    /\ \E a \in Live :
          LET res == groupby(frames[a], NoneSeq)
          IN  /\ Admit(res)
              /\ frames' = Return(frames, a, op.n + 1, res)
              /\ op' = Call("groupby", a, 0, res)
    /\ UNCHANGED <<oh, ddfs, dcalls>>

NextChain ==
    \/ Slice
    \/ Concat
    \/ GroupByIndex

SpecChain == InitChain /\ [][NextChain]_vars

-----------------------------------------------------------------------------
(* Two frames built with column labels, then one add or column assignment. *)

\* np.eye(n, k)
eye(n, k) == Mat(k, [i \in 1..n |-> [j \in 1..k |-> IF i = j THEN 1 ELSE 0]])

LabelledFrames ==
    {SparseFrame(eye(n, k), NoneSeq, columns) :
        n \in 0..MaxErrRows, k \in 1..MaxErrCols,
        columns \in {NoneSeq} \cup {SomeSeq(c) : c \in SeqsUpTo(0..1, MaxErrCols)}}

InitErrors ==
    /\ \E f \in LabelledFrames, g \in LabelledFrames :
          /\ Len(f._columns) = f._data.nc
          /\ Len(g._columns) = g._data.nc
          /\ frames = [i \in 1..MaxErrCalls |->
                          IF i = 1 THEN f ELSE IF i = 2 THEN g ELSE NoFrame]
    /\ op = [NoCall EXCEPT !.n = 2, !.name = "SparseFrame", !.r = 2, !.ok = TRUE]
    /\ oh = Encoding(<<>>, <<>>)
    /\ NoDask

NextErrors ==
    \/ Add
    \/ SetItem

SpecErrors == InitErrors /\ [][NextErrors]_vars

-----------------------------------------------------------------------------
(* The one-hot encoder on its own: a series over the values 1..MaxCat and  *)
(* a vocabulary of distinct categories.                                    *)

Series == SeqsUpTo(1..MaxCat, MaxSeries)

Vocabularies == {c \in SeqsUpTo(1..MaxCat, MaxCat) : IsUnique(c)}

InitOneHot ==
    /\ frames = [i \in 1..MaxCalls |-> NoFrame]
    /\ op = NoCall
    /\ \E s \in Series, categories \in Vocabularies : oh = Encoding(s, categories)
    /\ NoDask

OneHot ==
    /\ ~oh.done
    /\ oh' = [oh EXCEPT !.done = TRUE,
                        !.res = csr_one_hot_series(oh.s, oh.categories)]
    /\ UNCHANGED <<frames, op, ddfs, dcalls>>

NextOneHot == OneHot

SpecOneHot == InitOneHot /\ [][NextOneHot]_vars

-----------------------------------------------------------------------------
(* The arithmetic of Python floats (IEEE 754 doubles) on values that are   *)
(* not negative: a double is m * 2^e with a significand m of 53 binary     *)
(* digits, and each operation rounds the exact result to the nearest       *)
(* double, ties to the even significand.  Significands do not fit an       *)
(* integer of 32 binary digits, so a natural number of any size is kept    *)
(* as the sequence of its digits to the base 2^13, lowest first, without   *)
(* leading zero.                                                           *)

Digits == 53

RadixBits == 13

Radix == 2^RadixBits

\* the one element of a set of one element
The(S) == CHOOSE r \in S : TRUE

\* x without its leading zeros
BNorm(x) ==
    SubSeq(x, 1, IF \A i \in 1..Len(x) : x[i] = 0 THEN 0
                 ELSE CHOOSE i \in 1..Len(x) :
                          x[i] # 0 /\ \A j \in i + 1..Len(x) : x[j] = 0)

\* the digits of n < Radix^3
BFromNat(n) ==
    BNorm(<<n % Radix, (n \div Radix) % Radix, n \div (Radix * Radix)>>)

\* the number of the digits x, which is below 2^31
BToNat(x) ==
    IF x = <<>> THEN 0
    ELSE IF Len(x) = 1 THEN x[1]
    ELSE IF Len(x) = 2 THEN x[1] + Radix * x[2]
    ELSE x[1] + Radix * (x[2] + Radix * x[3])

Bit(x, i) == IF i <= Len(x) THEN x[i] ELSE 0

LongerOf(x, y) == IF Len(x) >= Len(y) THEN Len(x) ELSE Len(y)

\* the sum of two numbers: position i takes a carry when a position below it
\* overflows and all positions between them are full
BAdd(x, y) ==
    LET s == [i \in 1..LongerOf(x, y) + 1 |-> Bit(x, i) + Bit(y, i)] \o <<>>
        carry(i) == \E j \in 1..i - 1 :
                        /\ s[j] >= Radix
                        /\ \A k \in j + 1..i - 1 : s[k] = Radix - 1
    IN  BNorm([i \in 1..Len(s) |->
                  (s[i] + (IF carry(i) THEN 1 ELSE 0)) % Radix] \o <<>>)

\* x - y for x >= y: position i gives a borrow when a position below it
\* falls short and all positions between them are even
BSub(x, y) ==
    LET d == [i \in 1..Len(x) |-> x[i] - Bit(y, i)] \o <<>>
        borrow(i) == \E j \in 1..i - 1 :
                         /\ d[j] < 0
                         /\ \A k \in j + 1..i - 1 : d[k] = 0
    IN  BNorm([i \in 1..Len(d) |->
                  (d[i] - (IF borrow(i) THEN 1 ELSE 0) + Radix) % Radix] \o <<>>)

BLess(x, y) ==
    IF Len(x) # Len(y) THEN Len(x) < Len(y)
    ELSE \E i \in 1..Len(x) :
            /\ x[i] < y[i]
            /\ \A j \in i + 1..Len(x) : x[j] = y[j]

\* x * s for 0 <= s <= Radix: the low digits of the products, plus their
\* high digits one position up
BMulSmall(x, s) ==
    BAdd([i \in 1..Len(x) |-> (x[i] * s) % Radix] \o <<>>,
         <<0>> \o [i \in 1..Len(x) |-> (x[i] * s) \div Radix])

RECURSIVE ColumnSum(_, _, _, _)
\* the sum of x[i] * y[k + 1 - i] over the positions i..Len(x) that exist
ColumnSum(x, y, k, i) ==
    IF i > Len(x) \/ i > k THEN 0
    ELSE (IF k + 1 - i <= Len(y) THEN x[i] * y[k + 1 - i] ELSE 0)
             + ColumnSum(x, y, k, i + 1)

\* x * y for x and y of five digits at most: a column sum is below Radix^3,
\* and its three digits go to three positions
BMul(x, y) ==
    IF x = <<>> \/ y = <<>> THEN <<>>
    ELSE LET cols == [k \in 1..Len(x) + Len(y) - 1 |->
                         ColumnSum(x, y, k, 1)] \o <<>>
         IN  BAdd(BAdd([k \in 1..Len(cols) |-> cols[k] % Radix] \o <<>>,
                       <<0>> \o [k \in 1..Len(cols) |->
                                   (cols[k] \div Radix) % Radix]),
                  <<0, 0>> \o [k \in 1..Len(cols) |->
                                 cols[k] \div (Radix * Radix)])

\* the number of binary digits of x
BitLen(x) ==
    IF x = <<>> THEN 0
    ELSE (Len(x) - 1) * RadixBits
            + (CHOOSE k \in 1..RadixBits :
                  2^(k - 1) <= x[Len(x)] /\ x[Len(x)] < 2^k)

\* the binary digit p (1 is the lowest) of x
BinaryDigit(x, p) ==
    (Bit(x, ((p - 1) \div RadixBits) + 1) \div 2^((p - 1) % RadixBits)) % 2

\* x * 2^k and x \div 2^k
BShl(x, k) ==
    IF x = <<>> THEN <<>>
    ELSE [i \in 1..k \div RadixBits |-> 0] \o BMulSmall(x, 2^(k % RadixBits))

BShr(x, k) ==
    LET q == k \div RadixBits
        r == k % RadixBits
    IN  IF q >= Len(x) THEN <<>>
        ELSE BNorm([i \in 1..Len(x) - q |->
                      (x[i + q] \div 2^r)
                          + (Bit(x, i + q + 1) % 2^r) * 2^(RadixBits - r)])

\* whether one of the k lowest binary digits of x is 1
LowDigits(x, k) == \E p \in 1..k : BinaryDigit(x, p) = 1

\* the digit q with q * y <= rem < (q + 1) * y, for rem < Radix * y and a y
\* whose highest digit is Radix \div 2 or more: the quotient of the two
\* highest digits of rem by the highest digit of y is q, q + 1 or q + 2
QuotientDigit(rem, y) ==
    LET top == Bit(rem, Len(y) + 1) * Radix + Bit(rem, Len(y))
        est == IF top \div y[Len(y)] < Radix THEN top \div y[Len(y)]
               ELSE Radix - 1
    IN  CHOOSE q \in est - 2..est :
            /\ q >= 0
            /\ ~BLess(rem, BMulSmall(y, q))
            /\ BLess(rem, BMulSmall(y, q + 1))

\* one step of the long division of a remainder rem by y: [d, rem]
DivStep(rem, y) ==
    LET d == QuotientDigit(rem, y)
    IN  [d |-> d, rem |-> BSub(rem, BMulSmall(y, d))]

\* long division, from the digit i of x down: [q, r]
RECURSIVE BDivR(_, _, _, _, _)
BDivR(x, y, i, rem, q) ==
    IF i = 0 THEN [q |-> BNorm(q), r |-> rem]
    ELSE CHOOSE r \in {BDivR(x, y, i - 1, st.rem, <<st.d>> \o q) :
                         st \in {DivStep(BNorm(<<x[i]>> \o rem), y)}} : TRUE

\* [q, r] of the division of x by y, x having more digits than y.  Both are
\* made larger by the same factor, so that the highest digit of y is
\* Radix \div 2 or more; the highest digits of x that stay below y make the
\* first remainder.
BDivMod(x, y) ==
    LET shift == RadixBits * Len(y) - BitLen(y)
        u == BShl(x, shift)
        v == BShl(y, shift)
        head == IF BLess(SubSeq(u, Len(u) - Len(v) + 1, Len(u)), v)
                THEN Len(v) ELSE Len(v) - 1
    IN  BDivR(u, v, Len(u) - head, SubSeq(u, Len(u) - head + 1, Len(u)), <<>>)

Dbl(m, e) == [m |-> m, e |-> e]

DZero == Dbl(<<>>, 0)

\* the double nearest to x * 2^e, where sticky tells that the exact value
\* is a little above x * 2^e
fl_round(x, e, sticky) ==
    IF x = <<>> THEN DZero
    ELSE IF BitLen(x) <= Digits
    THEN Dbl(BShl(x, Digits - BitLen(x)), e - (Digits - BitLen(x)))
    ELSE LET s == BitLen(x) - Digits
             top == BShr(x, s)
             low == sticky \/ LowDigits(x, s - 1)
             up == BinaryDigit(x, s) = 1 /\ (low \/ BinaryDigit(top, 1) = 1)
             r == IF up THEN BAdd(top, <<1>>) ELSE top
         IN  IF BitLen(r) > Digits THEN Dbl(BShr(r, 1), e + s + 1)
             ELSE Dbl(r, e + s)

\* float(n) of an integer n >= 0
fl_from_int(n) == fl_round(BFromNat(n), 0, FALSE)

\* int(x): truncation
py_int(x) ==
    IF x.e >= 0 THEN BToNat(BShl(x.m, x.e)) ELSE BToNat(BShr(x.m, -x.e))

\* the significands of x and y over their common, lower, exponent
fl_align(x, y) ==
    LET e == IF x.e <= y.e THEN x.e ELSE y.e
    IN  [x |-> BShl(x.m, x.e - e), y |-> BShl(y.m, y.e - e), e |-> e]

fl_less(x, y) == LET al == fl_align(x, y) IN BLess(al.x, al.y)

fl_mul(x, y) == fl_round(BMul(x.m, y.m), x.e + y.e, FALSE)

fl_add(x, y) ==
    IF x.m = <<>> THEN y ELSE IF y.m = <<>> THEN x
    ELSE LET al == fl_align(x, y) IN fl_round(BAdd(al.x, al.y), al.e, FALSE)

\* x - y for x >= y
fl_sub(x, y) ==
    IF y.m = <<>> THEN x
    ELSE LET al == fl_align(x, y) IN fl_round(BSub(al.x, al.y), al.e, FALSE)

\* x / y for y > 0: the quotient of the significands to 56 digits or more,
\* the remainder telling whether it is exact
fl_div(x, y) ==
    IF x.m = <<>> THEN DZero
    ELSE LET dm == BDivMod(BShl(x.m, Digits + 3), y.m)
         IN  fl_round(dm.q, x.e - y.e - (Digits + 3), dm.r # <<>>)

-----------------------------------------------------------------------------
(* The partitioned frame of sparsity/dask/core.py: a task graph (a mapping *)
(* from keys (name, i) to tasks), a name, a meta and the divisions.  A     *)
(* division is an integer or None; a name is the text "prefix-token",      *)
(* kept as the record of the prefix and of what tokenize was given         *)
(* (tokenize is a hash of its normalised arguments: equal arguments give   *)
(* equal tokens, and other arguments other tokens).                        *)

\* a name: op is the prefix, the other fields are the tokenized arguments
NameOf(prefix, func, meta, kw, n, divs, args) ==
    [op |-> prefix, func |-> func, meta |-> meta, kw |-> kw, n |-> n,
     divs |-> divs, args |-> args]

NoName == NameOf("", 0, 0, 0, 0, <<>>, <<>>)

\* a task (fn, ...): deps are the keys it reads, the rest its other arguments
TaskOf(fn, deps) ==
    [fn |-> fn, deps |-> deps, func |-> 0, meta |-> 0, kw |-> 0, other |-> 0,
     lo |-> NoneInt, hi |-> NoneInt, last |-> FALSE, k |-> 0]

EmptyGraph == [key \in {} |-> TaskOf("", <<>>)]

\* toolz.merge(d1, d2): the later mapping wins on a common key
merge(d1, d2) ==
    [key \in DOMAIN d1 \cup DOMAIN d2 |->
        IF key \in DOMAIN d2 THEN d2[key] ELSE d1[key]]

\* dask SparseFrame.__init__: `if divisions:` is the truth value of the
\* sequence it is given, that is, whether it is non-empty
DaskSparseFrame(dsk, name, meta, divisions) ==
    [dask |-> dsk, _name |-> name, _meta |-> meta,
     known_divisions |-> Len(divisions) > 0,
     divisions |-> divisions]

NoDaskFrame == DaskSparseFrame(EmptyGraph, NoName, 0, <<>>)

npartitions(df) == Len(df.divisions) - 1

_keys(df) == [i \in 1..npartitions(df) |-> <<df._name, i - 1>>]

\* normalize_token.register((SparseFrame,), lambda a: a._name)
tokenize_frame(df) == df._name

DOk(f) == [ok |-> TRUE, f |-> f, err |-> ""]
DRaise(e) == [ok |-> FALSE, f |-> NoDaskFrame, err |-> e]

\* a frame of the partitions src-0 .. src-(n-1) of a source: the graph loads
\* each partition, as a caller of the constructor builds it
from_partitions(src, divisions) ==
    LET name == NameOf("from", src, 0, 0, 0, divisions, <<>>)
        dsk == [key \in {<<name, i>> : i \in 0..Len(divisions) - 2} |->
                   [TaskOf("load", <<>>) EXCEPT !.func = src, !.k = key[2]]]
    IN  DaskSparseFrame(dsk, name, 0, divisions)

\* map_partitions with a task for all partitions but the last
map_partitions_short(func, ddf, meta, kw) ==
    LET name == NameOf("map_partitions", func, meta, kw, 0, <<>>, <<>>)
        dsk == [key \in {<<name, i>> : i \in 0..npartitions(ddf) - 2} |->
                   [TaskOf("apply_and_enforce", <<<<ddf._name, key[2]>>>>)
                        EXCEPT !.func = func, !.kw = kw, !.meta = meta]]
    IN  DOk(DaskSparseFrame(merge(dsk, ddf.dask), name, meta, ddf.divisions))

\* map_partitions(func, ddf, meta, **kwargs): the token is made of func, meta
\* and kwargs
map_partitions(func, ddf, meta, kw) ==
    LET name == NameOf("map_partitions", func, meta, kw, 0, <<>>, <<>>)
        dsk == [key \in {<<name, i>> : i \in 0..npartitions(ddf) - 1} |->
                   [TaskOf("apply_and_enforce", <<<<ddf._name, key[2]>>>>)
                        EXCEPT !.func = func, !.kw = kw, !.meta = meta]]
    IN  DOk(DaskSparseFrame(merge(dsk, ddf.dask), name, meta, ddf.divisions))

MinOf(S) == CHOOSE x \in S : \A y \in S : x <= y

\* the alignment step of elemwise leaves frames of equal divisions as they are
_maybe_align_partitions(args) == args

\* elemwise(op, *args, meta=meta) on one or two partitioned frames and, when
\* other # 0, one plain argument more
elemwise(func, args, other, meta) ==
    LET dasks == _maybe_align_partitions(args)
        name == NameOf("elemwise", func, 0, 0, other, <<>>,
                       [i \in 1..Len(dasks) |-> tokenize_frame(dasks[i])])
        divisions == dasks[1].divisions
        zipped == MinOf({npartitions(dasks[i]) : i \in 1..Len(dasks)})
        dsk == [key \in {<<name, i>> : i \in 0..zipped - 1} |->
                   [TaskOf(IF other # 0 THEN "apply" ELSE "op",
                           [i \in 1..Len(dasks) |-> <<dasks[i]._name, key[2]>>])
                        EXCEPT !.func = func, !.other = other]]
        upstream == IF Len(dasks) = 1 THEN dasks[1].dask
                    ELSE merge(dasks[1].dask, dasks[2].dask)
    IN  DOk(DaskSparseFrame(merge(dsk, upstream), name, meta, divisions))

\* the values of divisions that hold no None
Values(divisions) == [i \in 1..Len(divisions) |-> divisions[i].v]

HasNone(divisions) == \E i \in 1..Len(divisions) : divisions[i].none

\* dask's check_divisions(b): sorted, and unique but for the last element
check_divisions(b) ==
    /\ IsMonotonic(b)
    /\ IsUnique(SubSeq(b, 1, Len(b) - 1))

_is_single_last_div(x) == Len(x) >= 2 /\ x[Len(x)] = x[Len(x) - 1]

\* the task (methods.boundary_slice, (name, part), lo, hi, last)
boundary_slice(name, part, lo, hi, last) ==
    [TaskOf("boundary_slice", <<<<name, part>>>>)
        EXCEPT !.lo = SomeInt(lo), !.hi = SomeInt(hi), !.last = last]

\* the first loop of dask's repartition_divisions: i and j are the positions
\* in the old divisions a and the new divisions b, c the boundaries and d the
\* slices made so far
RECURSIVE rd_slices(_, _, _, _, _, _, _, _)
rd_slices(a, b, name, i, j, low, c, d) ==
    IF ~(i < Len(a) /\ j < Len(b))
    THEN [i |-> i, j |-> j, low |-> low, c |-> c, d |-> d]
    ELSE LET ai == a[i + 1]
             bj == b[j + 1]
             hi == IF ai < bj THEN ai ELSE bj
         IN  rd_slices(a, b, name,
                       IF ai <= bj THEN i + 1 ELSE i,
                       IF ai >= bj THEN j + 1 ELSE j,
                       hi, Append(c, hi),
                       Append(d, boundary_slice(name, i - 1, low, hi, FALSE)))

\* the slices of the part of b to the right of a, all cut from the last old
\* partition
RECURSIVE rd_right(_, _, _, _, _, _, _)
rd_right(a, b, name, j, low, c, d) ==
    IF j >= Len(b) THEN [c |-> c, d |-> d]
    ELSE rd_right(a, b, name, j + 1, b[j + 1], Append(c, b[j + 1]),
                  Append(d, boundary_slice(name, Len(a) - 2, low, b[j + 1], FALSE)))

\* the keys (out1, i) with c[i] < bj, from position i on
RECURSIVE rd_take(_, _, _, _)
rd_take(c, bj, out1, i) ==
    IF i < Len(c) /\ c[i + 1] < bj
    THEN <<<<out1, i>>>> \o rd_take(c, bj, out1, i + 1)
    ELSE <<>>

\* the second loop: the task of each new partition j - 1, made of the slices
\* that fall into it
RECURSIVE rd_merge(_, _, _, _, _, _, _, _, _)
rd_merge(a, b, c, k, name, out1, out2, i, j) ==
    IF j >= Len(b) THEN EmptyGraph
    ELSE LET below == rd_take(c, b[j + 1], out1, i)
             i1 == i + Len(below)
             more == /\ _is_single_last_div(c)
                     /\ i1 < Len(c) /\ c[i1 + 1] = b[Len(b)]
                     /\ (b[Len(b)] # b[Len(b) - 1] \/ j = Len(b) - 1)
                     /\ i1 < k
             tmp == IF more THEN Append(below, <<out1, i1>>) ELSE below
             i2 == IF more THEN i1 + 1 ELSE i1
             task == IF Len(tmp) = 0
                     THEN boundary_slice(name, 0, a[1], a[1], FALSE)
                     ELSE IF Len(tmp) = 1 THEN TaskOf("alias", tmp)
                     ELSE TaskOf("concat", tmp)
         IN  merge([key \in {<<out2, j - 1>>} |-> task],
                   rd_merge(a, b, c, k, name, out1, out2, i2, j + 1))

\* [ok, err, dsk]: dask's repartition_divisions(a, b, name, out1, out2, force)
\* on divisions without None
repartition_divisions(a, b, name, out1, out2, force) ==
    LET fail(e) == [ok |-> FALSE, err |-> e, dsk |-> EmptyGraph]
        p == rd_slices(a, b, name, 1, 1, a[1], <<a[1]>>, <<>>)
        right == a[Len(a)] < b[Len(b)] \/ b[Len(b)] = b[Len(b) - 1]
        q == IF right THEN rd_right(a, b, name, p.j, p.low, p.c, p.d)
             ELSE [c |-> Append(p.c, a[Len(a)]),
                   d |-> IF _is_single_last_div(a) /\ p.i < Len(a)
                         THEN Append(p.d, boundary_slice(name, p.i - 1,
                                            a[p.i + 1], a[p.i + 1], FALSE))
                         ELSE p.d]
        k == Len(q.d)
        d == [q.d EXCEPT ![k].last = TRUE]
        split == [key \in {<<out1, i>> : i \in 0..k - 1} |-> d[key[2] + 1]]
    IN  IF ~check_divisions(b) \/ Len(b) < 2 THEN fail("ValueError")
        ELSE IF force /\ (a[1] < b[1] \/ a[Len(a)] > b[Len(b)])
        THEN fail("ValueError")
        ELSE IF ~force /\ (a[1] # b[1] \/ a[Len(a)] # b[Len(b)])
        THEN fail("ValueError")
        ELSE [ok |-> TRUE, err |-> "",
              dsk |-> merge(split, rd_merge(a, b, q.c, k, name, out1, out2, 0, 1))]

\* repartition(df, divisions, force): new divisions are a list of integers.
\* Old divisions of None differ from every new boundary (ValueError) and do
\* not compare with one under force (TypeError).
repartition(df, divisions, force) ==
    LET tmp == NameOf("repartition-split", 0, 0, 0, 0, divisions,
                      <<tokenize_frame(df)>>)
        out == NameOf("repartition-merge", 0, 0, 0, 0, divisions,
                      <<tokenize_frame(df)>>)
        r == repartition_divisions(Values(df.divisions), Values(divisions),
                                   df._name, tmp, out, force)
    IN  IF ~check_divisions(Values(divisions)) \/ Len(divisions) < 2
        THEN DRaise("ValueError")
        ELSE IF HasNone(df.divisions)
        THEN DRaise(IF force THEN "TypeError" ELSE "ValueError")
        ELSE IF ~r.ok THEN DRaise(r.err)
        ELSE DOk(DaskSparseFrame(merge(df.dask, r.dsk), out, df._meta, divisions))

\* np.linspace(0, n, num) for num >= 2: arange(num) * (n / (num - 1)), the
\* last element set to n
linspace(n, num) ==
    The({[i \in 1..num |-> IF i = num THEN fl_from_int(n)
                           ELSE fl_mul(fl_from_int(i - 1), step)] \o <<>> :
            step \in {fl_div(fl_from_int(n), fl_from_int(num - 1))}})

\* np.interp(x, xp, fp) at one point x, for increasing xp
interp(x, xp, fp) ==
    LET last == Len(xp)
        j == CHOOSE i \in 1..last - 1 :
                 ~fl_less(x, xp[i]) /\ fl_less(x, xp[i + 1])
        slope == fl_div(fl_sub(fp[j + 1], fp[j]), fl_sub(xp[j + 1], xp[j]))
    IN  IF fl_less(x, xp[1]) THEN fp[1]
        ELSE IF ~fl_less(x, xp[last]) THEN fp[last]
        ELSE fl_add(fl_mul(slope, fl_sub(x, xp[j])), fp[j])

\* the boundary indices of the shrinking branch:
\* [int(i * (df.npartitions / npartitions)) for i in range(npartitions + 1)]
new_partitions_boundaries(old, n) ==
    The({[i \in 1..n + 1 |->
             py_int(fl_mul(fl_from_int(i - 1), npartitions_ratio))] \o <<>> :
            npartitions_ratio \in {fl_div(fl_from_int(old), fl_from_int(n))}})

\* the chunk counts k of the splitting branch, for the old partitions from i
\* on, j chunks being given out already
RECURSIVE split_counts(_, _, _, _, _, _)
split_counts(old, n, ratio, i, j, last) ==
    IF i >= old THEN <<>>
    ELSE CHOOSE ks \in {<<st.k>> \o split_counts(old, n, ratio, i + 1,
                                                 j + st.k, st.new) :
                           st \in {LET new == fl_add(last, ratio)
                                   IN  [new |-> new,
                                        k |-> IF i = old - 1 THEN n - j
                                              ELSE py_int(fl_sub(new, last))]}} :
             TRUE

\* the sum of the first i elements of a sequence of numbers
RECURSIVE Total(_, _)
Total(s, i) == IF i = 0 THEN 0 ELSE s[i] + Total(s, i - 1)

\* the name of the result of repartition_npartitions(df, n)
new_name(df, n) ==
    NameOf("repartition", 0, 0, 0, n, <<>>, <<tokenize_frame(df)>>)

\* the shrinking branch: new partition i stacks the old partitions from
\* boundary i up to boundary i + 1
shrink(df, n) ==
    The({DOk(DaskSparseFrame(
             merge(df.dask,
                   [key \in {<<new_name(df, n), i>> : i \in 0..n - 1} |->
                       TaskOf("vstack",
                              [o \in 1..b[key[2] + 2] - b[key[2] + 1] |->
                                  <<df._name, b[key[2] + 1] + o - 1>>])]),
             new_name(df, n), df._meta,
             [i \in 1..n + 1 |-> df.divisions[b[i] + 1]])) :
            b \in {new_partitions_boundaries(npartitions(df), n)}})

\* the divisions of the interpolating branch: np.interp at n + 1 points of
\* linspace(0, len, n + 1) over xp = linspace(0, len, len), cast to integers,
\* the first and the last set to those of df
interpolated_divisions(df, n) ==
    LET len == Len(df.divisions)
    IN  The({[i \in 1..n + 1 |->
                 IF i = 1 THEN df.divisions[1]
                 ELSE IF i = n + 1 THEN df.divisions[len]
                 ELSE SomeInt(py_int(interp(x[i], xp, fp)))] \o <<>> :
                x \in {linspace(len, n + 1)},
                xp \in {linspace(len, len)},
                fp \in {[i \in 1..len |-> fl_from_int(df.divisions[i].v)] \o <<>>}})

\* the splitting branch: old partition i is split evenly into ks[i + 1]
\* chunks, and each chunk is a new partition
split(df, n) ==
    LET old == npartitions(df)
        split_name == NameOf("split", 0, 0, 0, n, <<>>, <<tokenize_frame(df)>>)
        \* the old partition whose chunks hold the new partition j
        part(ks, j) == CHOOSE i \in 0..old - 1 :
                           Total(ks, i) <= j /\ j < Total(ks, i + 1)
    IN  The({DOk(DaskSparseFrame(
                 merge(df.dask,
                       merge([key \in {<<split_name, i>> : i \in 0..old - 1} |->
                                 [TaskOf("split_evenly", <<<<df._name, key[2]>>>>)
                                      EXCEPT !.k = ks[key[2] + 1]]],
                             [key \in {<<new_name(df, n), j>> : j \in 0..n - 1} |->
                                 [TaskOf("getitem",
                                         <<<<split_name, part(ks, key[2])>>>>)
                                      EXCEPT !.k = key[2]
                                                 - Total(ks, part(ks, key[2]))]])),
                 new_name(df, n), df._meta, [i \in 1..n + 1 |-> NoneInt])) :
                ks \in {split_counts(old, n,
                                    fl_div(fl_from_int(n), fl_from_int(old)),
                                    0, 0, DZero)}})

\* repartition_npartitions(df, npartitions) for npartitions >= 1: divisions
\* are numbers when none of them is None
repartition_npartitions(df, n) ==
    IF npartitions(df) = n THEN DOk(df)
    ELSE IF npartitions(df) > n THEN shrink(df, n)
    ELSE IF df.known_divisions /\ ~HasNone(df.divisions)
    THEN The({repartition(df, divisions, FALSE) :
                 divisions \in {interpolated_divisions(df, n)}})
    ELSE split(df, n)

-----------------------------------------------------------------------------
(* Runs on partitioned frames: ddfs holds the frames built so far, dcalls  *)
(* the calls made, each with the positions in ddfs of its operands a, b    *)
(* and of its result r (0 when it raised).                                 *)

DCall(name, a, b, res, r) ==
    [name |-> name, a |-> a, b |-> b, r |-> IF res.ok THEN r ELSE 0,
     ok |-> res.ok, err |-> res.err, n |-> 0, func |-> 0, meta |-> 0,
     other |-> 0, divs |-> <<>>, force |-> FALSE]

CanCallDask == Len(dcalls) < MaxDaskCalls

\* the frame a call returns is a new object, unless the call returned an
\* operand itself
Built(res, a) ==
    IF res.ok /\ (a = 0 \/ res.f # ddfs[a]) THEN Append(ddfs, res.f) ELSE ddfs

ResultAt(res, a) ==
    IF a # 0 /\ res.f = ddfs[a] THEN a ELSE Len(ddfs) + 1

\* strictly increasing integer divisions, or divisions that are all None
IncreasingDivisions(parts) ==
    {[i \in 1..Len(d) |-> SomeInt(d[i])] :
        d \in {q \in SeqsOfLen(0..MaxDiv, parts + 1) :
                  \A i \in 1..parts : q[i] < q[i + 1]}}

LoadDivisions ==
    UNION {IncreasingDivisions(parts) \cup {[i \in 1..parts + 1 |-> NoneInt]} :
              parts \in 1..MaxBaseParts}

\* the divisions a caller asks of repartition: integers in ascending order
NewDivisions ==
    {[i \in 1..Len(d) |-> SomeInt(d[i])] :
        d \in {q \in SeqsUpTo(0..MaxDiv, MaxParts + 1) :
                  q # <<>> /\ IsMonotonic(q)}}

InitDask ==
    /\ frames = [i \in 1..MaxCalls |-> NoFrame]
    /\ op = NoCall
    /\ oh = Encoding(<<>>, <<>>)
    /\ NoDask

FromPartitions ==
    /\ CanCallDask
    /\ \E src \in 1..MaxSources, divisions \in LoadDivisions :
          LET res == DOk(from_partitions(src, divisions))
          IN  /\ ddfs' = Built(res, 0)
              /\ dcalls' = Append(dcalls,
                     [DCall("from_partitions", 0, 0, res, ResultAt(res, 0))
                         EXCEPT !.func = src, !.divs = divisions])
    /\ UNCHANGED <<frames, op, oh>>

MapPartitions ==
    /\ CanCallDask
    /\ \E a \in 1..Len(ddfs), func \in 1..MaxFuncs :
          LET res == map_partitions(func, ddfs[a], 1, 0)
          IN  /\ ddfs' = Built(res, 0)
              /\ dcalls' = Append(dcalls,
                     [DCall("map_partitions", a, 0, res, ResultAt(res, 0))
                         EXCEPT !.func = func, !.meta = 1])
    /\ UNCHANGED <<frames, op, oh>>

\* elemwise on one frame, or on two frames of equal divisions
Elemwise ==
    /\ CanCallDask
    /\ \E a \in 1..Len(ddfs), b \in 0..Len(ddfs), other \in 0..1 :
          LET args == IF b = 0 THEN <<ddfs[a]>> ELSE <<ddfs[a], ddfs[b]>>
              res == elemwise(1, args, other, 1)
          IN  /\ b # 0 => ddfs[a].divisions = ddfs[b].divisions
              /\ ddfs' = Built(res, 0)
              /\ dcalls' = Append(dcalls,
                     [DCall("elemwise", a, b, res, ResultAt(res, 0))
                         EXCEPT !.func = 1, !.meta = 1, !.other = other])
    /\ UNCHANGED <<frames, op, oh>>

Repartition ==
    /\ CanCallDask
    /\ \E a \in 1..Len(ddfs), divisions \in NewDivisions, force \in BOOLEAN :
          LET res == repartition(ddfs[a], divisions, force)
          IN  /\ ddfs' = Built(res, 0)
              /\ dcalls' = Append(dcalls,
                     [DCall("repartition", a, 0, res, ResultAt(res, 0))
                         EXCEPT !.divs = divisions, !.force = force])
    /\ UNCHANGED <<frames, op, oh>>

RepartitionNPartitions ==
    /\ CanCallDask
    /\ \E a \in 1..Len(ddfs), n \in 1..MaxParts :
          LET res == repartition_npartitions(ddfs[a], n)
          IN  /\ ddfs' = Built(res, a)
              /\ dcalls' = Append(dcalls,
                     [DCall("repartition_npartitions", a, 0, res, ResultAt(res, a))
                         EXCEPT !.n = n])
    /\ UNCHANGED <<frames, op, oh>>

NextDask ==
    \/ FromPartitions
    \/ MapPartitions
    \/ Elemwise
    \/ Repartition
    \/ RepartitionNPartitions

SpecDask == InitDask /\ [][NextDask]_vars

-----------------------------------------------------------------------------
(* Runs that load one frame of up to MaxShrinkParts partitions, with the   *)
(* divisions 0, 1, .., and shrink it and the frames got from it.           *)

RangeDivisions(parts) == [i \in 1..parts + 1 |-> SomeInt(i - 1)]

InitShrink == InitDask

LoadRange ==
    /\ dcalls = <<>>
    /\ \E parts \in 2..MaxShrinkParts :
          LET res == DOk(from_partitions(1, RangeDivisions(parts)))
          IN  /\ ddfs' = Built(res, 0)
              /\ dcalls' = Append(dcalls,
                     [DCall("from_partitions", 0, 0, res, ResultAt(res, 0))
                         EXCEPT !.func = 1, !.divs = RangeDivisions(parts)])
    /\ UNCHANGED <<frames, op, oh>>

Shrink ==
    /\ dcalls # <<>>
    /\ Len(dcalls) < MaxShrinkCalls
    /\ \E a \in 1..Len(ddfs) :
          \E n \in 1..npartitions(ddfs[a]) - 1 :
              LET res == repartition_npartitions(ddfs[a], n)
              IN  /\ ddfs' = Built(res, a)
                  /\ dcalls' = Append(dcalls,
                         [DCall("repartition_npartitions", a, 0, res,
                                ResultAt(res, a)) EXCEPT !.n = n])
    /\ UNCHANGED <<frames, op, oh>>

NextShrink == LoadRange \/ Shrink

SpecShrink == InitShrink /\ [][NextShrink]_vars

-----------------------------------------------------------------------------
(* Runs that load one frame of unknown divisions and grow it, and the      *)
(* frames got from it, by splitting partitions into chunks.                *)

UnknownDivisions(parts) == [i \in 1..parts + 1 |-> NoneInt]

InitSplit == InitDask

LoadUnknown ==
    /\ dcalls = <<>>
    /\ \E parts \in 1..MaxSplitParts :
          LET res == DOk(from_partitions(1, UnknownDivisions(parts)))
          IN  /\ ddfs' = Built(res, 0)
              /\ dcalls' = Append(dcalls,
                     [DCall("from_partitions", 0, 0, res, ResultAt(res, 0))
                         EXCEPT !.func = 1, !.divs = UnknownDivisions(parts)])
    /\ UNCHANGED <<frames, op, oh>>

Grow ==
    /\ dcalls # <<>>
    /\ Len(dcalls) < MaxSplitCalls
    /\ \E a \in 1..Len(ddfs) :
          \E n \in npartitions(ddfs[a]) + 1..MaxSplitTarget :
              LET res == repartition_npartitions(ddfs[a], n)
              IN  /\ ddfs' = Built(res, a)
                  /\ dcalls' = Append(dcalls,
                         [DCall("repartition_npartitions", a, 0, res,
                                ResultAt(res, a)) EXCEPT !.n = n])
    /\ UNCHANGED <<frames, op, oh>>

NextSplit == LoadUnknown \/ Grow

SpecSplit == InitSplit /\ [][NextSplit]_vars

-----------------------------------------------------------------------------
(* Runs that load one frame of known integer divisions, evenly spaced or   *)
(* the squares 0, 1, 4, .., and shrink or grow it and the frames got from  *)
(* it.                                                                     *)

EvenDivisions(parts, step) == [i \in 1..parts + 1 |-> SomeInt((i - 1) * step)]

SquareDivisions(parts) == [i \in 1..parts + 1 |-> SomeInt((i - 1) * (i - 1))]

TripDivisions ==
    {EvenDivisions(parts, step) : parts \in 1..MaxTripParts, step \in 1..MaxTripStep}
        \cup {SquareDivisions(parts) : parts \in 2..MaxTripParts}

InitTrip == InitDask

LoadKnown ==
    /\ dcalls = <<>>
    /\ \E divisions \in TripDivisions :
          LET res == DOk(from_partitions(1, divisions))
          IN  /\ ddfs' = Built(res, 0)
              /\ dcalls' = Append(dcalls,
                     [DCall("from_partitions", 0, 0, res, ResultAt(res, 0))
                         EXCEPT !.func = 1, !.divs = divisions])
    /\ UNCHANGED <<frames, op, oh>>

\* repartition_npartitions(n) with n below or above the partitions of a frame
Resize ==
    /\ dcalls # <<>>
    /\ Len(dcalls) < MaxTripCalls
    /\ \E a \in 1..Len(ddfs) :
          \E n \in (1..MaxTripParts) \ {npartitions(ddfs[a])} :
              LET res == repartition_npartitions(ddfs[a], n)
              IN  /\ ddfs' = Built(res, a)
                  /\ dcalls' = Append(dcalls,
                         [DCall("repartition_npartitions", a, 0, res,
                                ResultAt(res, a)) EXCEPT !.n = n])
    /\ UNCHANGED <<frames, op, oh>>

NextTrip == LoadKnown \/ Resize

SpecTrip == InitTrip /\ [][NextTrip]_vars

-----------------------------------------------------------------------------
(* The frames a claim speaks of: the receiver, the other operand and the   *)
(* result of the last call.                                                *)

Self == frames[op.a]
Other == frames[op.b]
Result == frames[op.r]

Called(name) == op.name = name
Returned(name) == op.name = name /\ op.ok

NRows(f) == Len(data(f).v)

\* the logical row stored under label L, all zeros when f has no such label
RowOf(f, L) ==
    IF L \in Range(f._index)
    THEN data(f).v[CHOOSE i \in 1..Len(f._index) : f._index[i] = L]
    ELSE ZeroRow(f._data.nc)

HasNonZero(m) == \E i \in 1..Len(m.v) : ~IsZeroRow(m.v[i])

-----------------------------------------------------------------------------
\* C1: in every frame any sequence of calls produced, the last physical row
\* of the stored matrix is all zero, and the logical view `data` is the
\* stored matrix without that row.
SentinelRowInvariant ==
    \A i \in Live :
        LET f == frames[i]
            n == Len(f._data.v)
        IN  /\ n >= 1
            /\ IsZeroRow(f._data.v[n])
            /\ Len(data(f).v) = n - 1
            /\ \A k \in 1..n - 1 : data(f).v[k] = f._data.v[k]

\* a column assignment of nonzero values has just acted on a frame that holds
\* nonzero rows
SentinelRowWitness ==
    /\ Called("__setitem__") /\ op.ok
    /\ HasNonZero(data(op.pre))
    /\ \E i \in 1..Len(op.seq) : op.seq[i] # 0

\* C2: in every frame any sequence of calls produced, the row label count is
\* the number of logical rows and the column label count is the number of
\* stored columns; a row slice takes its rows from the logical rows of its
\* source only.
DimensionInvariant ==
    /\ \A i \in Live :
          /\ Len(frames[i]._index) = NRows(frames[i])
          /\ Len(frames[i]._columns) = frames[i]._data.nc
    /\ Returned("_slice") =>
          data(Result).v = PySlice(data(Self).v, op.start, op.stop)

\* C3: for frames of identical column labels and unique row labels, add
\* returns one row per label of the union of the two row label sets, the row
\* of label L being self's row of L plus other's row of L, a side without L
\* contributing zeros.
AddIsUnionWithZeroFill ==
    (/\ Called("add")
     /\ Self._columns = Other._columns
     /\ IsUnique(Self._index) /\ IsUnique(Other._index))
    => /\ op.ok
       /\ IsUnique(Result._index)
       /\ Range(Result._index) = Range(Self._index) \cup Range(Other._index)
       /\ Len(Result._index) = NRows(Result)
       /\ \A k \in 1..Len(Result._index) :
             data(Result).v[k] = AddRow(RowOf(Self, Result._index[k]),
                                        RowOf(Other, Result._index[k]))

\* the labels and the values of two frames agree
SameContent(f, g) == f._index = g._index /\ data(f) = data(g)

\* C4: for frames of identical column labels, A.add(B).sort_index() and
\* B.add(A).sort_index() have the same row labels and the same values.
AddCommutesUpToOrder ==
    (Called("add") /\ Self._columns = Other._columns)
    => LET ba == add(Other, Self)
       IN  /\ op.ok
           /\ ba.ok
           /\ SameContent(sort_index(Result).f, sort_index(ba.f).f)

\* C5: for frames of identical columns, join along axis 0 succeeds, its shape
\* is (A.shape[0] + B.shape[0], A.shape[1]), and it holds A's rows and row
\* labels followed by B's.
JoinRowsStacks ==
    (Called("join") /\ op.axis = 0 /\ Self._columns = Other._columns)
    => /\ op.ok
       /\ Result.shape = <<Self.shape[1] + Other.shape[1], Self.shape[2]>>
       /\ data(Result).v = data(Self).v \o data(Other).v
       /\ Result._index = Self._index \o Other._index

\* C6: for frames of unique row labels, join along axis 1 has the union of
\* the two row label sets as row labels, A's columns followed by B's as column
\* labels, and as the row of label L A's row of L followed by B's row of L,
\* zeros for a side without L; where the fast path is taken on identical row
\* labels, the alignment path gives the same content.
JoinColsIsOuter ==
    (/\ Called("join") /\ op.axis = 1
     /\ IsUnique(Self._index) /\ IsUnique(Other._index))
    => /\ op.ok
       /\ IsUnique(Result._index)
       /\ Range(Result._index) = Range(Self._index) \cup Range(Other._index)
       /\ Len(Result._index) = NRows(Result)
       /\ Result._columns = Self._columns \o Other._columns
       /\ \A k \in 1..Len(Result._index) :
             data(Result).v[k] = RowOf(Self, Result._index[k])
                                    \o RowOf(Other, Result._index[k])
       /\ (op.path = "fast" /\ Self._index = Other._index) =>
             LET j == _matrix_join(Self._data, Other._data,
                                   Self._index, Other._index)
             IN  j.ok /\ j.data = data(Result) /\ j.idx = Result._index

\* the keys a groupby call groups by
KeysOf(f, given, by) == IF given THEN by ELSE f._index

RECURSIVE SumRows(_, _, _, _)
\* the sum of those of the rows 1..n of m whose key is K
SumRows(m, keys, K, n) ==
    IF n = 0 THEN ZeroRow(m.nc)
    ELSE IF keys[n] = K THEN AddRow(m.v[n], SumRows(m, keys, K, n - 1))
    ELSE SumRows(m, keys, K, n - 1)

Min(x, y) == IF x <= y THEN x ELSE y

\* C7: for every frame and every key array (a `by` as long as the row count,
\* or the frame's own row labels), groupby returns one row per distinct key
\* in ascending key order, with the columns of the input, the row of key K
\* being the sum of the logical input rows whose key is K.
GroupBySumsPerKey ==
    (Called("groupby") /\ (op.given => Len(op.seq) = NRows(Self)))
    => LET keys == KeysOf(Self, op.given, op.seq)
       IN  /\ op.ok
           /\ Result._index = SortSet(Range(keys))
           /\ Result._columns = Self._columns
           /\ NRows(Result) = Cardinality(Range(keys))
           /\ Result._data.nc = Self._data.nc
           /\ \A c \in 1..NRows(Result) :
                 data(Result).v[c] =
                     SumRows(data(Self), keys, Result._index[c],
                             Min(Len(keys), NRows(Self)))

\* C8: frame[key] = values, with as many values as the frame has rows,
\* appends one column whose logical entries are `values`, leaves the values
\* of the columns that existed unchanged, and extends the column labels by the
\* one label `key`.
SetItemAppendsColumn ==
    (Called("__setitem__") /\ Len(op.seq) = NRows(op.pre))
    => /\ op.ok
       /\ Self._data.nc = op.pre._data.nc + 1
       /\ NRows(Self) = NRows(op.pre)
       /\ \A i \in 1..NRows(Self) :
             /\ Self._data.v[i][Self._data.nc] = op.seq[i]
             /\ SubSeq(Self._data.v[i], 1, op.pre._data.nc) = op.pre._data.v[i]
       /\ Self._columns = Append(op.pre._columns, op.key)

OneHotEncodesOrFails ==
    oh.done =>
        LET outside == Range(oh.s) \ Range(oh.categories)
            m == oh.res.m
        IN  IF outside # {}
            THEN /\ ~oh.res.ok
                 /\ oh.res.err = "ValueError"
                 /\ Range(oh.res.named) = outside
            ELSE /\ oh.res.ok
                 /\ MatShape(m) = <<Len(oh.s), Len(oh.categories)>>
                 /\ \A i \in 1..Len(oh.s) :
                       /\ Cardinality({j \in 1..m.nc : m.v[i][j] # 0}) = 1
                       /\ \A j \in 1..m.nc :
                             m.v[i][j] = IF oh.categories[j] = oh.s[i] THEN 1 ELSE 0

\* the encoder has refused a series that holds known and unknown values
OneHotWitness ==
    /\ oh.done /\ ~oh.res.ok
    /\ Range(oh.s) \cap Range(oh.categories) # {}
    /\ Range(oh.s) \ Range(oh.categories) # {}

PartitionedFrameInvariant ==
    \A f \in 1..Len(ddfs) :
        LET df == ddfs[f]
        IN  /\ Len(df.divisions) = npartitions(df) + 1
            /\ npartitions(df) >= 1
            /\ \A i \in 1..npartitions(df) : _keys(df)[i] \in DOMAIN df.dask
            /\ \A i \in 0..npartitions(df) - 1 : <<df._name, i>> \in DOMAIN df.dask

\* a frame was mapped over and then grown, by splitting, to MaxParts partitions
PartitionedFrameWitness ==
    \E c \in 1..Len(dcalls), m \in 1..Len(dcalls) :
        /\ dcalls[m].name = "map_partitions" /\ dcalls[m].ok
        /\ dcalls[c].name = "repartition_npartitions" /\ dcalls[c].ok
        /\ dcalls[c].a = dcalls[m].r
        /\ npartitions(ddfs[dcalls[c].r]) = MaxParts
        /\ npartitions(ddfs[dcalls[c].a]) < MaxParts
        /\ HasNone(ddfs[dcalls[c].r].divisions)

\* C13: a partitioned frame whose divisions are placeholders (None), such as
\* the result of the growing repartition that splits partitions into chunks,
\* has known_divisions = FALSE.
PlaceholderDivisionsAreUnknown ==
    \A f \in 1..Len(ddfs) :
        HasNone(ddfs[f].divisions) => ~ddfs[f].known_divisions

\* C17: names are free of collisions: a key that is in the graphs of two
\* partitioned frames maps to the same task in both, and two map_partitions
\* calls with the same function, meta and kwargs on two different input
\* frames give results of different names.
NamesAreCollisionFree ==
    /\ \A f \in 1..Len(ddfs), g \in 1..Len(ddfs) :
          \A key \in DOMAIN ddfs[f].dask \cap DOMAIN ddfs[g].dask :
              ddfs[f].dask[key] = ddfs[g].dask[key]
    /\ \A c \in 1..Len(dcalls), d \in 1..Len(dcalls) :
          (/\ dcalls[c].name = "map_partitions" /\ dcalls[c].ok
           /\ dcalls[d].name = "map_partitions" /\ dcalls[d].ok
           /\ dcalls[c].func = dcalls[d].func
           /\ dcalls[c].meta = dcalls[d].meta
           /\ ddfs[dcalls[c].a]._name # ddfs[dcalls[d].a]._name)
              => ddfs[dcalls[c].r]._name # ddfs[dcalls[d].r]._name

\* C14: repartition_npartitions(n) with 1 <= n < old makes new partition i
\* the stack of exactly the old partitions floor(i * old / n) up to, and
\* without, floor((i + 1) * old / n): the lists are non-empty and hold every
\* old partition once, in order; the new divisions are the old ones at these
\* boundaries, the first and the last being the old first and last.
ShrinkStacksEvenGroups ==
    \A c \in 1..Len(dcalls) :
        (/\ dcalls[c].name = "repartition_npartitions"
         /\ dcalls[c].n < npartitions(ddfs[dcalls[c].a]))
           => LET A == ddfs[dcalls[c].a]
                  n == dcalls[c].n
                  old == npartitions(A)
                  R == ddfs[dcalls[c].r]
                  lo(i) == (i * old) \div n
                  deps(i) == R.dask[<<R._name, i>>].deps
              IN  /\ dcalls[c].ok
                  /\ npartitions(R) = n
                  /\ \A i \in 0..n - 1 :
                        /\ R.dask[<<R._name, i>>].fn = "vstack"
                        /\ deps(i) # <<>>
                        /\ deps(i) = [o \in 1..lo(i + 1) - lo(i) |->
                                         <<A._name, lo(i) + o - 1>>]
                  /\ \A p \in 0..old - 1 :
                        Cardinality({<<i, o>> \in (0..n - 1) \X (1..old) :
                                        /\ o <= Len(deps(i))
                                        /\ deps(i)[o] = <<A._name, p>>}) = 1
                  /\ R.divisions = [i \in 1..n + 1 |-> A.divisions[lo(i - 1) + 1]]
                  /\ R.divisions[1] = A.divisions[1]
                  /\ R.divisions[n + 1] = A.divisions[old + 1]

\* C16: repartition_npartitions(n) with n > old on a frame of unknown
\* divisions splits old partition i into chunks(i) chunks, one new partition
\* each: the counts total n, each is 1 or more, and two counts differ by one
\* at most.
GrowSplitsRoundRobin ==
    \A c \in 1..Len(dcalls) :
        (/\ dcalls[c].name = "repartition_npartitions"
         /\ dcalls[c].n > npartitions(ddfs[dcalls[c].a])
         /\ HasNone(ddfs[dcalls[c].a].divisions))
           => LET A == ddfs[dcalls[c].a]
                  n == dcalls[c].n
                  old == npartitions(A)
                  R == ddfs[dcalls[c].r]
                  from(j) == R.dask[<<R._name, j>>].deps[1]
                  chunks(i) == R.dask[<<from(0)[1], i>>].k
              IN  /\ dcalls[c].ok
                  /\ npartitions(R) = n
                  /\ \A i \in 0..old - 1 :
                        /\ R.dask[<<from(0)[1], i>>].fn = "split_evenly"
                        /\ R.dask[<<from(0)[1], i>>].deps = <<<<A._name, i>>>>
                        /\ chunks(i) >= 1
                        /\ Cardinality({j \in 0..n - 1 :
                                           from(j) = <<from(0)[1], i>>})
                               = chunks(i)
                  /\ Total([i \in 1..old |-> chunks(i - 1)], old) = n
                  /\ \A i \in 0..old - 1, k \in 0..old - 1 :
                        chunks(i) - chunks(k) <= 1

\* C15: on a frame of known, ascending, integer divisions and N partitions,
\* repartition_npartitions(k) for a k that divides N, followed by
\* repartition_npartitions(N) on its result, gives a frame whose divisions
\* are those of the first frame.
RoundTripRestoresDivisions ==
    \A c \in 1..Len(dcalls), d \in 1..Len(dcalls) :
        (/\ dcalls[c].name = "repartition_npartitions" /\ dcalls[c].ok
         /\ dcalls[d].name = "repartition_npartitions"
         /\ c < d
         /\ dcalls[d].a = dcalls[c].r
         /\ ~HasNone(ddfs[dcalls[c].a].divisions)
         /\ IsMonotonic(Values(ddfs[dcalls[c].a].divisions))
         /\ dcalls[c].n < npartitions(ddfs[dcalls[c].a])
         /\ npartitions(ddfs[dcalls[c].a]) % dcalls[c].n = 0
         /\ dcalls[d].n = npartitions(ddfs[dcalls[c].a]))
           => /\ dcalls[d].ok
              /\ ddfs[dcalls[d].r].divisions = ddfs[dcalls[c].a].divisions

====
